---- MODULE Spec2Model ----
(***************************************************************************)
(* The HTTP surface of the mentor service: the mentor-time router          *)
(* (availability slots, reservation counts) and the student router         *)
(* (contact requests), with the services and the bearer-token dependency   *)
(* they call.  A step is one HTTP exchange: a request is authenticated,    *)
(* its handler runs its single awaited service call and maps the result    *)
(* or the raised error to a response; the response is then sent.           *)
(* The mentor service, which no router exposes, is a second state machine  *)
(* over the mentor table: a step is one call of one of its methods.        *)
(***************************************************************************)
EXTENDS Integers, FiniteSets, Sequences, TLC

VARIABLES slots, requests, nextSlotId, nextRequestId, http,
          mentors, nextMentorId, call

router_vars == <<slots, requests, nextSlotId, nextRequestId, http>>
mentor_vars == <<mentors, nextMentorId, call>>
vars == <<slots, requests, nextSlotId, nextRequestId, http,
          mentors, nextMentorId, call>>

\* ---------------------------------------------------------------- bounds
\* At most this many records (slots and requests together) are created.
MaxCreated == 2
\* At most this many mentors are created.
MaxMentors == 2

\* ---------------------------------------------------------------- values
\* Python's None, and pydantic's "field not set by the caller".
None == "None"
Unset == "Unset"

Mentors == {"m1", "m2"}
Days == {"day0", "day1"}
StartTimes == {"09:00", "10:00"}
CallTimes == {"t1", "t2"}
Descriptions == {"d1", "d2"}
Now == "now"

SlotIds == 1..(MaxCreated + 1)
RequestIds == 1..(MaxCreated + 1)

\* ------------------------------------------------------------ exceptions
HTTPException(status_code, detail) ==
    [cls |-> "HTTPException", status_code |-> status_code, detail |-> detail]

ValueError(msg) == [cls |-> "ValueError", status_code |-> 0, detail |-> msg]

RuntimeError(msg) == [cls |-> "Exception", status_code |-> 0, detail |-> msg]

\* str(e): an HTTPException prints as "<status_code>: <detail>", any other
\* exception as its message.
str(e) ==
    IF e.cls = "HTTPException"
        THEN ToString(e.status_code) \o ": " \o e.detail
        ELSE e.detail

NoFault == [cls |-> "none", status_code |-> 0, detail |-> ""]

\* What the storage layer under a service call can do besides succeeding:
\* raise an already-formed HTTP error, or fail in any other way.
Faults == {NoFault, HTTPException(404, "upstream"), RuntimeError("db down")}

\* The outcome of a call: a value (and the table as the call left it), or a
\* raised exception (the table untouched).
Return(value) == [raised |-> FALSE, value |-> value]
Raise(e) == [raised |-> TRUE, exc |-> e]
Stored(value, table) == [raised |-> FALSE, value |-> value, table |-> table]

\* ------------------------------------------------------------------ auth
Tokens == {"tok-u1", "tok-u2", "bad"}
\* The callers of the endpoints that only log who called.
Callers == {"tok-u1", "bad"}

\* Bearer token -> caller identity, or a raised authentication failure.
extract_user_id(token) ==
    CASE token = "tok-u1" -> Return("u1")
      [] token = "tok-u2" -> Return("u2")
      [] OTHER -> Raise(HTTPException(401, "Invalid token"))

\* ---------------------------------------------------------- the exchange
Idle == [op |-> "idle"]

\* A handled exchange: the endpoint, the bearer token and the arguments it was
\* called with (req, which also records what the storage layer did under the
\* call), and the response.
Exchange(op, token, req, status, body) ==
    [op |-> op, token |-> token, handled |-> TRUE, req |-> req,
     status |-> status, body |-> body]

\* The error envelope.
Detail(message) == [detail |-> message]

\* A dependency that raises ends the exchange before the handler is called.
Rejected(op, token, e) ==
    /\ http' = [op |-> op, token |-> token, handled |-> FALSE, req |-> <<>>,
                status |-> e.status_code, body |-> Detail(e.detail)]
    /\ UNCHANGED <<slots, requests, nextSlotId, nextRequestId>>

Created == (nextSlotId - 1) + (nextRequestId - 1)

\* ------------------------------------------------------------ DTOs
MentorTimeDto(id, mentor_time) ==
    [id |-> id, day |-> mentor_time.day, time_start |-> mentor_time.time_start,
     time_end |-> mentor_time.time_end, mentor_id |-> mentor_time.mentor_id]

RequestDto(request) ==
    [id |-> request.id, call_type |-> request.call_type,
     time_sended |-> request.time_sended, mentor_id |-> request.mentor_id,
     guest_id |-> request.guest_id, description |-> request.description,
     call_time |-> request.call_time, response |-> request.response]

GetRequestByIdGetResponse(request) ==
    [call_type |-> request.call_type, time_sended |-> request.time_sended,
     mentor_id |-> request.mentor_id, guest_id |-> request.guest_id,
     description |-> request.description, call_time |-> request.call_time,
     response |-> request.response]

\* ------------------------------------------------- MentorTimeService
\* A stored slot as the service returns it: the row and its id.
MentorTimeRow(id) ==
    [id |-> id, day |-> slots[id].day, time_start |-> slots[id].time_start,
     time_end |-> slots[id].time_end, mentor_id |-> slots[id].mentor_id]

MentorTimeService_get_all_mentor_time(fault) ==
    IF fault # NoFault THEN Raise(fault)
    ELSE Return({MentorTimeRow(id) : id \in DOMAIN slots})

MentorTimeService_create_mentor_time(day, time_start, time_end, mentor_id, fault) ==
    IF fault # NoFault THEN Raise(fault)
    ELSE Stored(nextSlotId,
                slots @@ (nextSlotId :> [day |-> day, time_start |-> time_start,
                                         time_end |-> time_end,
                                         mentor_id |-> mentor_id]))

MentorTimeService_get_all_mentor_time_by_mentor_id(mentor_id, fault) ==
    IF fault # NoFault THEN Raise(fault)
    ELSE Return({MentorTimeRow(id) :
                    id \in {i \in DOMAIN slots : slots[i].mentor_id = mentor_id}})

\* Only the keys of the patch are written; the other columns keep their value.
ApplyPatch(row, patch) ==
    [f \in DOMAIN row |-> IF f \in DOMAIN patch THEN patch[f] ELSE row[f]]

MentorTimeService_update_mentor_time(slot_id, patch, fault) ==
    IF fault # NoFault THEN Raise(fault)
    ELSE IF slot_id \notin DOMAIN slots THEN Raise(ValueError("MentorTime not found"))
    ELSE Stored(None, [slots EXCEPT ![slot_id] = ApplyPatch(slots[slot_id], patch)])

MentorTimeService_delete_mentor_time(slot_id, fault) ==
    IF fault # NoFault THEN Raise(fault)
    ELSE IF slot_id \notin DOMAIN slots THEN Raise(ValueError("MentorTime not found"))
    ELSE Stored(None, [id \in DOMAIN slots \ {slot_id} |-> slots[id]])

\* Requests of the mentor whose call_time is the asked one.
MentorTimeService_count_requests_for_time(mentor_id, request_time, fault) ==
    IF fault # NoFault THEN Raise(fault)
    ELSE Return(Cardinality({id \in DOMAIN requests :
                    /\ requests[id].mentor_id = mentor_id
                    /\ requests[id].call_time = request_time}))

MentorTimeService_check_time_reservation(mentor_id, request_time, fault) ==
    IF fault # NoFault THEN Raise(fault)
    ELSE Return(\E id \in DOMAIN requests :
                    /\ requests[id].mentor_id = mentor_id
                    /\ requests[id].call_time = request_time)

\* ------------------------------------------------- StudentService
RequestRow(id) ==
    [id |-> id, call_type |-> requests[id].call_type,
     time_sended |-> requests[id].time_sended, mentor_id |-> requests[id].mentor_id,
     guest_id |-> requests[id].guest_id, description |-> requests[id].description,
     call_time |-> requests[id].call_time, response |-> requests[id].response]

DefaultResponse == "0"

StudentService_get_all_requests(fault) ==
    IF fault # NoFault THEN Raise(fault)
    ELSE Return({RequestRow(id) : id \in DOMAIN requests})

StudentService_send_message_request(mentor_id, guest_id, description, fault) ==
    IF fault # NoFault THEN Raise(fault)
    ELSE Stored(nextRequestId,
                requests @@ (nextRequestId :>
                    [call_type |-> "False", time_sended |-> Now,
                     mentor_id |-> mentor_id, guest_id |-> guest_id,
                     description |-> description, call_time |-> None,
                     response |-> DefaultResponse]))

StudentService_send_call_request(mentor_id, guest_id, description, call_time, fault) ==
    IF fault # NoFault THEN Raise(fault)
    ELSE Stored(nextRequestId,
                requests @@ (nextRequestId :>
                    [call_type |-> "True", time_sended |-> Now,
                     mentor_id |-> mentor_id, guest_id |-> guest_id,
                     description |-> description, call_time |-> call_time,
                     response |-> DefaultResponse]))

\* Optional[Request]: <<row>> when the id is stored, <<>> (None) when it is not.
StudentService_get_request_by_id(request_id, fault) ==
    IF fault # NoFault THEN Raise(fault)
    ELSE IF request_id \in DOMAIN requests THEN Return(<<RequestRow(request_id)>>)
    ELSE Return(<<>>)

StudentService_update_request(request_id, patch, fault) ==
    IF fault # NoFault THEN Raise(fault)
    ELSE IF request_id \notin DOMAIN requests THEN Raise(ValueError("Request not found"))
    ELSE Stored(None, [requests EXCEPT
                          ![request_id] = ApplyPatch(requests[request_id], patch)])

StudentService_delete_request(request_id, fault) ==
    IF fault # NoFault THEN Raise(fault)
    ELSE IF request_id \notin DOMAIN requests THEN Raise(ValueError("Request not found"))
    ELSE Stored(None, [id \in DOMAIN requests \ {request_id} |-> requests[id]])

\* ------------------------------------------------- request bodies
\* The bodies the requests are drawn from.  Each field of a body takes two
\* values and each optional field of a PATCH body is sent by some bodies and
\* left out by others.
CreateMentorTimeRequestPostRequest ==
    [day : {"day0"}, time_start : {"09:00"}, time_end : {"10:00"}, mentor_id : Mentors]

\* Every field optional; a field the caller left out stays Unset.
MentorTimeUpdateRequest ==
    { [day |-> Unset, time_start |-> Unset, time_end |-> Unset, mentor_id |-> Unset],
      [day |-> Unset, time_start |-> Unset, time_end |-> "11:00", mentor_id |-> Unset],
      [day |-> Unset, time_start |-> Unset, time_end |-> Unset, mentor_id |-> "m2"],
      [day |-> "day1", time_start |-> "10:00", time_end |-> Unset, mentor_id |-> Unset] }

SendMessageRequestPostRequest == [mentor_id : Mentors, description : Descriptions]

SendCallRequestPostRequest ==
    [mentor_id : Mentors, description : Descriptions, call_time : CallTimes]

RequestUpdateRequest ==
    { [call_type |-> Unset, mentor_id |-> Unset, guest_id |-> Unset,
       description |-> Unset, call_time |-> Unset, response |-> Unset],
      [call_type |-> Unset, mentor_id |-> Unset, guest_id |-> Unset,
       description |-> Unset, call_time |-> "t2", response |-> Unset],
      [call_type |-> Unset, mentor_id |-> "m2", guest_id |-> Unset,
       description |-> Unset, call_time |-> Unset, response |-> Unset],
      [call_type |-> "True", mentor_id |-> Unset, guest_id |-> "u2",
       description |-> "d2", call_time |-> Unset, response |-> "1"] }

\* req.dict(): every declared field, the ones left out at their default None.
dict_all(req) ==
    [f \in DOMAIN req |-> IF req[f] = Unset THEN None ELSE req[f]]

\* req.dict(exclude_unset=True): only the fields the caller sent.
dict_exclude_unset(req) ==
    [f \in {g \in DOMAIN req : req[g] # Unset} |-> req[f]]

\* ------------------------------------------------- mentor_time_router
mentor_time_get_all(token, fault) ==
    /\ http = Idle
    /\ LET user_id == extract_user_id(token)
           op == "mentor_time.get_all"
           req == [fault |-> fault]
       IN  IF user_id.raised THEN Rejected(op, token, user_id.exc)
           ELSE LET r == MentorTimeService_get_all_mentor_time(fault) IN
                /\ http' =
                     IF ~r.raised
                        THEN Exchange(op, token, req, 200,
                                 [mentor_times |->
                                     {MentorTimeDto(mt.id, mt) : mt \in r.value}])
                     ELSE IF r.exc.cls = "HTTPException"
                        THEN Exchange(op, token, req, r.exc.status_code, Detail(r.exc.detail))
                     ELSE Exchange(op, token, req, 400, Detail(str(r.exc)))
                /\ UNCHANGED <<slots, requests, nextSlotId, nextRequestId>>

create_mentor_time(token, mentor_time_request, fault) ==
    /\ http = Idle
    /\ Created < MaxCreated
    /\ LET user_id == extract_user_id(token)
           op == "mentor_time.create_mentor_time"
           req == [body |-> mentor_time_request, fault |-> fault]
       IN  IF user_id.raised THEN Rejected(op, token, user_id.exc)
           ELSE LET r == MentorTimeService_create_mentor_time(
                             mentor_time_request.day, mentor_time_request.time_start,
                             mentor_time_request.time_end,
                             mentor_time_request.mentor_id, fault)
                IN  IF ~r.raised
                       THEN /\ http' = Exchange(op, token, req, 201, [id |-> r.value])
                            /\ slots' = r.table
                            /\ nextSlotId' = nextSlotId + 1
                            /\ UNCHANGED <<requests, nextRequestId>>
                       ELSE /\ http' = Exchange(op, token, req, 400, Detail(str(r.exc)))
                            /\ UNCHANGED <<slots, requests, nextSlotId, nextRequestId>>
\* get_all_by_mentor_id handing the caller's id to the service in place of the
\* mentor id of the path.
get_all_by_mentor_id_wrong_id(token, mentor_id, fault) ==
    /\ http = Idle
    /\ LET user_id == extract_user_id(token)
           op == "mentor_time.get_all_by_mentor_id"
           req == [mentor_id |-> mentor_id, fault |-> fault]
       IN  IF user_id.raised THEN Rejected(op, token, user_id.exc)
           ELSE LET r == MentorTimeService_get_all_mentor_time_by_mentor_id(
                             user_id.value, fault)
                IN
                /\ http' =
                     IF ~r.raised
                        THEN Exchange(op, token, req, 200,
                                 [mentor_times |->
                                     {MentorTimeDto(mt.id, mt) : mt \in r.value}])
                     ELSE IF r.exc.cls = "HTTPException"
                        THEN Exchange(op, token, req, r.exc.status_code, Detail(r.exc.detail))
                     ELSE Exchange(op, token, req, 400, Detail(str(r.exc)))
                /\ UNCHANGED <<slots, requests, nextSlotId, nextRequestId>>

get_all_by_mentor_id(token, mentor_id, fault) ==
    /\ http = Idle
    /\ LET user_id == extract_user_id(token)
           op == "mentor_time.get_all_by_mentor_id"
           req == [mentor_id |-> mentor_id, fault |-> fault]
       IN  IF user_id.raised THEN Rejected(op, token, user_id.exc)
           ELSE LET r == MentorTimeService_get_all_mentor_time_by_mentor_id(
                             mentor_id, fault)
                IN
                /\ http' =
                     IF ~r.raised
                        THEN Exchange(op, token, req, 200,
                                 [mentor_times |->
                                     {MentorTimeDto(mt.id, mt) : mt \in r.value}])
                     ELSE IF r.exc.cls = "HTTPException"
                        THEN Exchange(op, token, req, r.exc.status_code, Detail(r.exc.detail))
                     ELSE Exchange(op, token, req, 400, Detail(str(r.exc)))
                /\ UNCHANGED <<slots, requests, nextSlotId, nextRequestId>>

\* The callable times come from the service; how it derives them from the
\* slots is its own matter, so its outcome is an input here.
CallTimesOutcomes ==
    {Return(times) : times \in SUBSET StartTimes} \cup {Raise(f) : f \in Faults \ {NoFault}}

get_possible_time(token, mentor_id, day, outcome) ==
    /\ http = Idle
    /\ LET user_id == extract_user_id(token)
           op == "mentor_time.get_possible_time"
           req == [mentor_id |-> mentor_id, day |-> day,
                   fault |-> IF outcome.raised THEN outcome.exc ELSE NoFault]
       IN  IF user_id.raised THEN Rejected(op, token, user_id.exc)
           ELSE LET r == outcome
                IN
                /\ http' =
                     IF ~r.raised
                        THEN Exchange(op, token, req, 200, [mentor_times |-> r.value])
                     ELSE IF r.exc.cls = "HTTPException"
                        THEN Exchange(op, token, req, r.exc.status_code, Detail(r.exc.detail))
                     ELSE Exchange(op, token, req, 400, Detail(str(r.exc)))
                /\ UNCHANGED <<slots, requests, nextSlotId, nextRequestId>>

count_requests(token, mentor_id, request_time, fault) ==
    /\ http = Idle
    /\ LET user_id == extract_user_id(token)
           op == "mentor_time.count_requests"
           req == [mentor_id |-> mentor_id, request_time |-> request_time, fault |-> fault]
       IN  IF user_id.raised THEN Rejected(op, token, user_id.exc)
           ELSE LET r == MentorTimeService_count_requests_for_time(
                             mentor_id, request_time, fault)
                IN
                /\ http' =
                     IF ~r.raised
                        THEN Exchange(op, token, req, 200, [count |-> r.value])
                     ELSE IF r.exc.cls = "HTTPException"
                        THEN Exchange(op, token, req, r.exc.status_code, Detail(r.exc.detail))
                     ELSE Exchange(op, token, req, 400, Detail(str(r.exc)))
                /\ UNCHANGED <<slots, requests, nextSlotId, nextRequestId>>
\* check_request handing the caller's id to the service in place of the
\* mentor's.
check_request_wrong_id(token, mentor_id, request_time, fault) ==
    /\ http = Idle
    /\ LET user_id == extract_user_id(token)
           op == "mentor_time.check_request"
           req == [mentor_id |-> mentor_id, request_time |-> request_time, fault |-> fault]
       IN  IF user_id.raised THEN Rejected(op, token, user_id.exc)
           ELSE LET r == MentorTimeService_check_time_reservation(
                             user_id.value, request_time, fault)
                IN
                /\ http' =
                     IF ~r.raised
                        THEN Exchange(op, token, req, 200, [status |-> r.value])
                     ELSE IF r.exc.cls = "HTTPException"
                        THEN Exchange(op, token, req, r.exc.status_code, Detail(r.exc.detail))
                     ELSE Exchange(op, token, req, 400, Detail(str(r.exc)))
                /\ UNCHANGED <<slots, requests, nextSlotId, nextRequestId>>

check_request(token, mentor_id, request_time, fault) ==
    /\ http = Idle
    /\ LET user_id == extract_user_id(token)
           op == "mentor_time.check_request"
           req == [mentor_id |-> mentor_id, request_time |-> request_time, fault |-> fault]
       IN  IF user_id.raised THEN Rejected(op, token, user_id.exc)
           ELSE LET r == MentorTimeService_check_time_reservation(
                             mentor_id, request_time, fault)
                IN
                /\ http' =
                     IF ~r.raised
                        THEN Exchange(op, token, req, 200, [status |-> r.value])
                     ELSE IF r.exc.cls = "HTTPException"
                        THEN Exchange(op, token, req, r.exc.status_code, Detail(r.exc.detail))
                     ELSE Exchange(op, token, req, 400, Detail(str(r.exc)))
                /\ UNCHANGED <<slots, requests, nextSlotId, nextRequestId>>
\* update_mentor_time without its "except ValueError" clause: a missing slot
\* falls through to the generic mapping.
update_mentor_time_no_value_error(token, slot_id, req_body, fault) ==
    /\ http = Idle
    /\ LET user_id == extract_user_id(token)
           op == "mentor_time.update_mentor_time"
           req == [slot_id |-> slot_id, body |-> req_body, fault |-> fault]
       IN  IF user_id.raised THEN Rejected(op, token, user_id.exc)
           ELSE LET r == MentorTimeService_update_mentor_time(
                             slot_id, dict_exclude_unset(req_body), fault)
                IN  IF ~r.raised
                       THEN /\ http' = Exchange(op, token, req, 200, [status |-> "ok"])
                            /\ slots' = r.table
                            /\ UNCHANGED <<requests, nextSlotId, nextRequestId>>
                       ELSE /\ http' = Exchange(op, token, req, 400, Detail(str(r.exc)))
                            /\ UNCHANGED <<slots, requests, nextSlotId, nextRequestId>>

update_mentor_time(token, slot_id, req_body, fault) ==
    /\ http = Idle
    /\ LET user_id == extract_user_id(token)
           op == "mentor_time.update_mentor_time"
           req == [slot_id |-> slot_id, body |-> req_body, fault |-> fault]
       IN  IF user_id.raised THEN Rejected(op, token, user_id.exc)
           ELSE LET r == MentorTimeService_update_mentor_time(
                             slot_id, dict_exclude_unset(req_body), fault)
                IN  IF ~r.raised
                       THEN /\ http' = Exchange(op, token, req, 200, [status |-> "ok"])
                            /\ slots' = r.table
                            /\ UNCHANGED <<requests, nextSlotId, nextRequestId>>
                       ELSE /\ http' =
                                 IF r.exc.cls = "ValueError"
                                    THEN Exchange(op, token, req, 404, Detail(str(r.exc)))
                                    ELSE Exchange(op, token, req, 400, Detail(str(r.exc)))
                            /\ UNCHANGED <<slots, requests, nextSlotId, nextRequestId>>

delete_mentor_time(token, slot_id, fault) ==
    /\ http = Idle
    /\ LET user_id == extract_user_id(token)
           op == "mentor_time.delete_mentor_time"
           req == [slot_id |-> slot_id, fault |-> fault]
       IN  IF user_id.raised THEN Rejected(op, token, user_id.exc)
           ELSE LET r == MentorTimeService_delete_mentor_time(slot_id, fault)
                IN  IF ~r.raised
                       THEN /\ http' = Exchange(op, token, req, 200, [status |-> "ok"])
                            /\ slots' = r.table
                            /\ UNCHANGED <<requests, nextSlotId, nextRequestId>>
                       ELSE /\ http' =
                                 IF r.exc.cls = "ValueError"
                                    THEN Exchange(op, token, req, 404, Detail(str(r.exc)))
                                    ELSE Exchange(op, token, req, 400, Detail(str(r.exc)))
                            /\ UNCHANGED <<slots, requests, nextSlotId, nextRequestId>>

\* ------------------------------------------------- student_router
student_get_all(token, fault) ==
    /\ http = Idle
    /\ LET user_id == extract_user_id(token)
           op == "student.get_all"
           req == [fault |-> fault]
       IN  IF user_id.raised THEN Rejected(op, token, user_id.exc)
           ELSE LET r == StudentService_get_all_requests(fault)
                IN
                /\ http' =
                     IF ~r.raised
                        THEN Exchange(op, token, req, 200, [requests |-> {RequestDto(request) : request \in r.value}])
                     ELSE IF r.exc.cls = "HTTPException"
                        THEN Exchange(op, token, req, r.exc.status_code, Detail(r.exc.detail))
                     ELSE Exchange(op, token, req, 400, Detail(str(r.exc)))
                /\ UNCHANGED <<slots, requests, nextSlotId, nextRequestId>>
\* create_message with the two ids handed to the service in the wrong order.
create_message_swapped_ids(token, request_request, fault) ==
    /\ http = Idle
    /\ Created < MaxCreated
    /\ LET user_id == extract_user_id(token)
           op == "student.create_message"
           req == [body |-> request_request, fault |-> fault]
       IN  IF user_id.raised THEN Rejected(op, token, user_id.exc)
           ELSE LET r == StudentService_send_message_request(
                             user_id.value, request_request.mentor_id,
                             request_request.description, fault)
                IN  IF ~r.raised
                       THEN /\ http' = Exchange(op, token, req, 201, [id |-> r.value])
                            /\ requests' = r.table
                            /\ nextRequestId' = nextRequestId + 1
                            /\ UNCHANGED <<slots, nextSlotId>>
                       ELSE /\ http' = Exchange(op, token, req, 400, Detail(str(r.exc)))
                            /\ UNCHANGED <<slots, requests, nextSlotId, nextRequestId>>

create_message(token, request_request, fault) ==
    /\ http = Idle
    /\ Created < MaxCreated
    /\ LET user_id == extract_user_id(token)
           op == "student.create_message"
           req == [body |-> request_request, fault |-> fault]
       IN  IF user_id.raised THEN Rejected(op, token, user_id.exc)
           ELSE LET r == StudentService_send_message_request(
                             request_request.mentor_id, user_id.value,
                             request_request.description, fault)
                IN  IF ~r.raised
                       THEN /\ http' = Exchange(op, token, req, 201, [id |-> r.value])
                            /\ requests' = r.table
                            /\ nextRequestId' = nextRequestId + 1
                            /\ UNCHANGED <<slots, nextSlotId>>
                       ELSE /\ http' = Exchange(op, token, req, 400, Detail(str(r.exc)))
                            /\ UNCHANGED <<slots, requests, nextSlotId, nextRequestId>>
\* create_call with a reservation check in front of the insert: a call time
\* already taken for the mentor is turned down.
create_call_checks_reservation(token, request_request, fault) ==
    /\ http = Idle
    /\ Created < MaxCreated
    /\ LET user_id == extract_user_id(token)
           op == "student.create_call"
           req == [body |-> request_request, fault |-> fault]
       IN  IF user_id.raised THEN Rejected(op, token, user_id.exc)
           ELSE LET booked == MentorTimeService_check_time_reservation(
                                  request_request.mentor_id,
                                  request_request.call_time, fault)
                    r == IF booked.raised THEN booked
                         ELSE IF booked.value THEN Raise(RuntimeError("time is booked"))
                         ELSE StudentService_send_call_request(
                                  request_request.mentor_id, user_id.value,
                                  request_request.description,
                                  request_request.call_time, fault)
                IN  IF ~r.raised
                       THEN /\ http' = Exchange(op, token, req, 201, [id |-> r.value])
                            /\ requests' = r.table
                            /\ nextRequestId' = nextRequestId + 1
                            /\ UNCHANGED <<slots, nextSlotId>>
                       ELSE /\ http' = Exchange(op, token, req, 400, Detail(str(r.exc)))
                            /\ UNCHANGED <<slots, requests, nextSlotId, nextRequestId>>

create_call(token, request_request, fault) ==
    /\ http = Idle
    /\ Created < MaxCreated
    /\ LET user_id == extract_user_id(token)
           op == "student.create_call"
           req == [body |-> request_request, fault |-> fault]
       IN  IF user_id.raised THEN Rejected(op, token, user_id.exc)
           ELSE LET r == StudentService_send_call_request(
                             request_request.mentor_id, user_id.value,
                             request_request.description,
                             request_request.call_time, fault)
                IN  IF ~r.raised
                       THEN /\ http' = Exchange(op, token, req, 201, [id |-> r.value])
                            /\ requests' = r.table
                            /\ nextRequestId' = nextRequestId + 1
                            /\ UNCHANGED <<slots, nextSlotId>>
                       ELSE /\ http' = Exchange(op, token, req, 400, Detail(str(r.exc)))
                            /\ UNCHANGED <<slots, requests, nextSlotId, nextRequestId>>

\* The text of the 404 raised when the looked-up request is absent (the source
\* carries it in Russian).
NotFoundDetail == "Request not found"
\* get_by_id without its "except HTTPException: raise" clause: the 404 raised
\* in the try block is caught by the generic clause.
get_by_id_rewrapped(token, request_id, fault) ==
    /\ http = Idle
    /\ LET user_id == extract_user_id(token)
           op == "student.get_by_id"
           req == [request_id |-> request_id, fault |-> fault]
       IN  IF user_id.raised THEN Rejected(op, token, user_id.exc)
           ELSE LET request == StudentService_get_request_by_id(request_id, fault)
                    r == IF request.raised THEN request
                         ELSE IF request.value = <<>>
                            THEN Raise(HTTPException(404, NotFoundDetail))
                         ELSE Return(GetRequestByIdGetResponse(request.value[1]))
                IN
                /\ http' =
                     IF ~r.raised
                        THEN Exchange(op, token, req, 200, r.value)
                     ELSE Exchange(op, token, req, 400, Detail(str(r.exc)))
                /\ UNCHANGED <<slots, requests, nextSlotId, nextRequestId>>

get_by_id(token, request_id, fault) ==
    /\ http = Idle
    /\ LET user_id == extract_user_id(token)
           op == "student.get_by_id"
           req == [request_id |-> request_id, fault |-> fault]
       IN  IF user_id.raised THEN Rejected(op, token, user_id.exc)
           ELSE LET request == StudentService_get_request_by_id(request_id, fault)
                    r == IF request.raised THEN request
                         ELSE IF request.value = <<>>
                            THEN Raise(HTTPException(404, NotFoundDetail))
                         ELSE Return(GetRequestByIdGetResponse(request.value[1]))
                IN
                /\ http' =
                     IF ~r.raised
                        THEN Exchange(op, token, req, 200, r.value)
                     ELSE IF r.exc.cls = "HTTPException"
                        THEN Exchange(op, token, req, r.exc.status_code, Detail(r.exc.detail))
                     ELSE Exchange(op, token, req, 400, Detail(str(r.exc)))
                /\ UNCHANGED <<slots, requests, nextSlotId, nextRequestId>>

update_request(token, request_id, req_body, fault) ==
    /\ http = Idle
    /\ LET user_id == extract_user_id(token)
           op == "student.update_request"
           req == [request_id |-> request_id, body |-> req_body, fault |-> fault]
       IN  IF user_id.raised THEN Rejected(op, token, user_id.exc)
           ELSE LET r == StudentService_update_request(
                             request_id, dict_exclude_unset(req_body), fault)
                IN  IF ~r.raised
                       THEN /\ http' = Exchange(op, token, req, 200, [status |-> "ok"])
                            /\ requests' = r.table
                            /\ UNCHANGED <<slots, nextSlotId, nextRequestId>>
                       ELSE /\ http' =
                                 IF r.exc.cls = "ValueError"
                                    THEN Exchange(op, token, req, 404, Detail(str(r.exc)))
                                    ELSE Exchange(op, token, req, 400, Detail(str(r.exc)))
                            /\ UNCHANGED <<slots, requests, nextSlotId, nextRequestId>>
\* delete_request declared without Depends(extract_user_id): the handler runs
\* whatever the token.
delete_request_no_depends(token, request_id, fault) ==
    /\ http = Idle
    /\ LET op == "student.delete_request"
           req == [request_id |-> request_id, fault |-> fault]
       IN  LET r == StudentService_delete_request(request_id, fault)
           IN  IF ~r.raised
                  THEN /\ http' = Exchange(op, token, req, 200, [status |-> "ok"])
                       /\ requests' = r.table
                       /\ UNCHANGED <<slots, nextSlotId, nextRequestId>>
                  ELSE /\ http' =
                            IF r.exc.cls = "ValueError"
                               THEN Exchange(op, token, req, 404, Detail(str(r.exc)))
                               ELSE Exchange(op, token, req, 400, Detail(str(r.exc)))
                       /\ UNCHANGED <<slots, requests, nextSlotId, nextRequestId>>

\* delete_request with the not-found clause widened to every exception: any
\* failure is reported as 404.
delete_request_all_404(token, request_id, fault) ==
    /\ http = Idle
    /\ LET user_id == extract_user_id(token)
           op == "student.delete_request"
           req == [request_id |-> request_id, fault |-> fault]
       IN  IF user_id.raised THEN Rejected(op, token, user_id.exc)
           ELSE LET r == StudentService_delete_request(request_id, fault)
                IN  IF ~r.raised
                       THEN /\ http' = Exchange(op, token, req, 200, [status |-> "ok"])
                            /\ requests' = r.table
                            /\ UNCHANGED <<slots, nextSlotId, nextRequestId>>
                       ELSE /\ http' = Exchange(op, token, req, 404, Detail(str(r.exc)))
                            /\ UNCHANGED <<slots, requests, nextSlotId, nextRequestId>>

delete_request(token, request_id, fault) ==
    /\ http = Idle
    /\ LET user_id == extract_user_id(token)
           op == "student.delete_request"
           req == [request_id |-> request_id, fault |-> fault]
       IN  IF user_id.raised THEN Rejected(op, token, user_id.exc)
           ELSE LET r == StudentService_delete_request(request_id, fault)
                IN  IF ~r.raised
                       THEN /\ http' = Exchange(op, token, req, 200, [status |-> "ok"])
                            /\ requests' = r.table
                            /\ UNCHANGED <<slots, nextSlotId, nextRequestId>>
                       ELSE /\ http' =
                                 IF r.exc.cls = "ValueError"
                                    THEN Exchange(op, token, req, 404, Detail(str(r.exc)))
                                    ELSE Exchange(op, token, req, 400, Detail(str(r.exc)))
                            /\ UNCHANGED <<slots, requests, nextSlotId, nextRequestId>>

\* ---------------------------------------------------------- mentor service
\* MentorService, over the mentor table.  It has no router: its methods are
\* called directly.  A step is one call; call holds the call last made, its
\* arguments and what it returned or raised.
MentorIds == 1..(MaxMentors + 1)
TgIds == {"tg1", "tg2"}
Names == {"Alice", "Bob"}
Infos == {"bio"}

\* What the storage layer under a mentor call can do besides succeeding.
MentorFaults == {NoFault, RuntimeError("db down")}

NoCall == [op |-> "none"]

Call(op, mentor_id, tg_id, name, info, fault, outcome) ==
    [op |-> op, mentor_id |-> mentor_id, tg_id |-> tg_id, name |-> name,
     info |-> info, fault |-> fault, outcome |-> outcome]

\* The Mentor record stored under id.
Mentor(id) ==
    [id |-> id, telegram_id |-> mentors[id].telegram_id,
     name |-> mentors[id].name, info |-> mentors[id].info]

\* The ids of the stored mentors with this telegram id (telegram ids are not
\* unique).
WithTgId(tg_id) == {id \in DOMAIN mentors : mentors[id].telegram_id = tg_id}

MentorRepository_get_all_mentors(fault) ==
    IF fault # NoFault THEN Raise(fault)
    ELSE Return({Mentor(id) : id \in DOMAIN mentors})

\* An unconditional insert under a newly generated id.
MentorRepository_create_mentor(tg_id, name, info, fault) ==
    IF fault # NoFault THEN Raise(fault)
    ELSE Stored(nextMentorId,
                mentors @@ (nextMentorId :>
                    [telegram_id |-> tg_id, name |-> name, info |-> info]))

\* Optional[Mentor]: <<row>> when the id is stored, <<>> (None) when it is not.
MentorRepository_get_mentor_by_id(mentor_id, fault) ==
    IF fault # NoFault THEN Raise(fault)
    ELSE IF mentor_id \in DOMAIN mentors THEN Return(<<Mentor(mentor_id)>>)
    ELSE Return(<<>>)

\* Optional[Mentor]: the row of a stored mentor with this telegram id (match
\* says which one, when several have it), <<>> when there is none.
MentorRepository_get_mentor_by_tg_id(tg_id, match, fault) ==
    IF fault # NoFault THEN Raise(fault)
    ELSE IF match \in WithTgId(tg_id) THEN Return(<<Mentor(match)>>)
    ELSE Return(<<>>)

\* MentorService.get_all_mentors: the repository's list, empty or not (an empty
\* one is only logged).
get_all_mentors(fault) ==
    LET mentors_ == MentorRepository_get_all_mentors(fault)
    IN  /\ call' = Call("get_all_mentors", 0, "", "", "", fault, mentors_)
        /\ UNCHANGED <<mentors, nextMentorId>>

\* MentorService.create_mentor: one repository insert, whose id is returned.
create_mentor(tg_id, name, info, fault) ==
    LET mentor_id == MentorRepository_create_mentor(tg_id, name, info, fault)
    IN  /\ nextMentorId <= MaxMentors
        /\ IF mentor_id.raised
             THEN /\ call' = Call("create_mentor", 0, tg_id, name, info, fault, mentor_id)
                  /\ UNCHANGED <<mentors, nextMentorId>>
             ELSE /\ mentors' = mentor_id.table
                  /\ nextMentorId' = nextMentorId + 1
                  /\ call' = Call("create_mentor", 0, tg_id, name, info, fault,
                                  Return(mentor_id.value))

\* A lookup that raises when the mentor is absent instead of returning None.
get_mentor_by_id_raises(mentor_id, fault) ==
    LET mentor == MentorRepository_get_mentor_by_id(mentor_id, fault)
    IN  /\ call' = Call("get_mentor_by_id", mentor_id, "", "", "", fault,
                        IF ~mentor.raised /\ mentor.value = <<>>
                            THEN Raise(ValueError("Mentor not found"))
                            ELSE mentor)
        /\ UNCHANGED <<mentors, nextMentorId>>

\* MentorService.get_mentor_by_id: what the repository returned, the mentor or
\* None (None is only logged).
get_mentor_by_id(mentor_id, fault) ==
    LET mentor == MentorRepository_get_mentor_by_id(mentor_id, fault)
    IN  /\ call' = Call("get_mentor_by_id", mentor_id, "", "", "", fault, mentor)
        /\ UNCHANGED <<mentors, nextMentorId>>

\* MentorService.get_mentor_by_tg_id: what the repository returned, the mentor
\* or None (None is only logged).
get_mentor_by_tg_id(tg_id, match, fault) ==
    LET mentor == MentorRepository_get_mentor_by_tg_id(tg_id, match, fault)
    IN  /\ match \in WithTgId(tg_id) \/ (WithTgId(tg_id) = {} /\ match = 1)
        /\ call' = Call("get_mentor_by_tg_id", 0, tg_id, "", "", fault, mentor)
        /\ UNCHANGED <<mentors, nextMentorId>>

\* The response leaves the server; the next request can be taken.
send_response ==
    /\ http # Idle
    /\ http' = Idle
    /\ UNCHANGED <<slots, requests, nextSlotId, nextRequestId>>

Init ==
    /\ slots = <<>>
    /\ requests = <<>>
    /\ nextSlotId = 1
    /\ nextRequestId = 1
    /\ http = Idle
    /\ mentors = <<>>
    /\ nextMentorId = 1
    /\ call = NoCall

Next ==
    \/ \E token \in Callers, fault \in Faults : mentor_time_get_all(token, fault) /\ UNCHANGED mentor_vars
    \/ \E token \in Callers, body \in CreateMentorTimeRequestPostRequest, fault \in Faults :
          create_mentor_time(token, body, fault) /\ UNCHANGED mentor_vars
    \/ \E token \in Callers, mentor_id \in Mentors, fault \in Faults :
          get_all_by_mentor_id(token, mentor_id, fault) /\ UNCHANGED mentor_vars
    \/ \E token \in Callers, slot_id \in SlotIds, body \in MentorTimeUpdateRequest,
          fault \in Faults : update_mentor_time(token, slot_id, body, fault) /\ UNCHANGED mentor_vars
    \/ \E token \in Callers, slot_id \in SlotIds, fault \in Faults :
          delete_mentor_time(token, slot_id, fault) /\ UNCHANGED mentor_vars
    \/ \E token \in Callers, mentor_id \in Mentors, day \in Days,
          outcome \in CallTimesOutcomes : get_possible_time(token, mentor_id, day, outcome) /\ UNCHANGED mentor_vars
    \/ \E token \in Callers, mentor_id \in Mentors, request_time \in CallTimes,
          fault \in Faults : count_requests(token, mentor_id, request_time, fault) /\ UNCHANGED mentor_vars
    \/ \E token \in Callers, mentor_id \in Mentors, request_time \in CallTimes,
          fault \in Faults : check_request(token, mentor_id, request_time, fault) /\ UNCHANGED mentor_vars
    \/ \E token \in Callers, fault \in Faults : student_get_all(token, fault) /\ UNCHANGED mentor_vars
    \/ \E token \in Tokens, body \in SendMessageRequestPostRequest, fault \in Faults :
          create_message(token, body, fault) /\ UNCHANGED mentor_vars
    \/ \E token \in Tokens, body \in SendCallRequestPostRequest, fault \in Faults :
          create_call(token, body, fault) /\ UNCHANGED mentor_vars
    \/ \E token \in Callers, request_id \in RequestIds, fault \in Faults :
          get_by_id(token, request_id, fault) /\ UNCHANGED mentor_vars
    \/ \E token \in Callers, request_id \in RequestIds, body \in RequestUpdateRequest,
          fault \in Faults : update_request(token, request_id, body, fault) /\ UNCHANGED mentor_vars
    \/ \E token \in Callers, request_id \in RequestIds, fault \in Faults :
          delete_request(token, request_id, fault) /\ UNCHANGED mentor_vars
    \/ send_response /\ UNCHANGED mentor_vars

Spec == Init /\ [][Next]_vars

\* The mentor service on its own: nothing reaches it through the routers.
MentorNext ==
    \/ \E fault \in MentorFaults :
          get_all_mentors(fault) /\ UNCHANGED router_vars
    \/ \E tg_id \in TgIds, name \in Names, info \in Infos, fault \in MentorFaults :
          create_mentor(tg_id, name, info, fault) /\ UNCHANGED router_vars
    \/ \E mentor_id \in MentorIds, fault \in MentorFaults :
          get_mentor_by_id(mentor_id, fault) /\ UNCHANGED router_vars
    \/ \E tg_id \in TgIds, match \in MentorIds, fault \in MentorFaults :
          get_mentor_by_tg_id(tg_id, match, fault) /\ UNCHANGED router_vars

MentorSpec == Init /\ [][MentorNext]_vars

\* ================================================================ claims
\* The step is the handling of a request by the endpoint op (authentication
\* passed and the handler ran).
Handles(op) == http = Idle /\ http' # Idle /\ http'.op = op /\ http'.handled

\* The same, with the storage layer doing its work without failing.
Serves(op) == Handles(op) /\ http'.req.fault = NoFault

\* What a read of the slot / of the request returns in the state reached.
ReadSlot(id) == {mt \in MentorTimeService_get_all_mentor_time(NoFault).value : mt.id = id}

ReadRequest(id) == StudentService_get_request_by_id(id, NoFault).value

\* The fields a PATCH body sends.
Sent(body) == {f \in DOMAIN body : body[f] # Unset}

\* C1: PATCH and DELETE of a slot or of a request answer 404 and leave the
\* tables as they were when the id is not stored; when it is stored they answer
\* {status: ok} and the next read of the entity shows the update (every field
\* sent has the value sent) or the removal (the entity is no longer returned).
C1_UpdateDeleteByExistence ==
    [][ /\ \A id \in SlotIds :
             (Serves("mentor_time.update_mentor_time") /\ http'.req.slot_id = id) =>
                IF id \notin DOMAIN slots
                   THEN http'.status = 404 /\ UNCHANGED <<slots, requests>>
                   ELSE /\ http'.status = 200 /\ http'.body = [status |-> "ok"]
                        /\ \E mt \in ReadSlot(id)' :
                              \A f \in Sent(http'.req.body) : mt[f] = http'.req.body[f]
        /\ \A id \in SlotIds :
             (Serves("mentor_time.delete_mentor_time") /\ http'.req.slot_id = id) =>
                IF id \notin DOMAIN slots
                   THEN http'.status = 404 /\ UNCHANGED <<slots, requests>>
                   ELSE /\ http'.status = 200 /\ http'.body = [status |-> "ok"]
                        /\ ReadSlot(id)' = {}
        /\ \A id \in RequestIds :
             (Serves("student.update_request") /\ http'.req.request_id = id) =>
                IF id \notin DOMAIN requests
                   THEN http'.status = 404 /\ UNCHANGED <<slots, requests>>
                   ELSE /\ http'.status = 200 /\ http'.body = [status |-> "ok"]
                        /\ ReadRequest(id)' # <<>>
                        /\ \A f \in Sent(http'.req.body) :
                              ReadRequest(id)'[1][f] = http'.req.body[f]
        /\ \A id \in RequestIds :
             (Serves("student.delete_request") /\ http'.req.request_id = id) =>
                IF id \notin DOMAIN requests
                   THEN http'.status = 404 /\ UNCHANGED <<slots, requests>>
                   ELSE /\ http'.status = 200 /\ http'.body = [status |-> "ok"]
                        /\ ReadRequest(id)' = <<>>
      ]_vars

\* C1 witness: a request that was created and deleted is deleted again, and the
\* answer is 404.
C1_Witness ==
    /\ http.op = "student.delete_request" /\ http.handled
    /\ http.req.fault = NoFault
    /\ http.req.request_id < nextRequestId
    /\ http.status = 404

\* The exchange in flight was handled by the endpoint op, the storage layer
\* doing its work without failing.
Served(op) == http.op = op /\ http.handled /\ http.req.fault = NoFault

\* C2: GET /student/{request_id} for an id that is not stored (never created,
\* or deleted) answers 404 with the not-found message, not 400.
C2_GetByIdAbsentIs404 ==
    (Served("student.get_by_id") /\ http.req.request_id \notin DOMAIN requests) =>
        (http.status = 404 /\ http.body = Detail(NotFoundDetail))

\* C2 witness: the lookup of an id that was never created has been answered.
C2_Witness ==
    /\ Served("student.get_by_id")
    /\ http.req.request_id >= nextRequestId
    /\ http.status = 404

\* The exchange in flight was handled by its endpoint (authentication passed
\* and the handler ran).
Handled == http # Idle /\ http.handled

\* C3: in every endpoint of both routers an HTTP-level error raised under the
\* service call reaches the caller with its own status code and detail.
C3_HttpErrorsPassThrough ==
    (Handled /\ http.req.fault.cls = "HTTPException") =>
        /\ http.status = http.req.fault.status_code
        /\ http.body = Detail(http.req.fault.detail)

UpdateDeleteOps ==
    {"mentor_time.update_mentor_time", "mentor_time.delete_mentor_time",
     "student.update_request", "student.delete_request"}

\* The id a PATCH or DELETE exchange names is stored in the table it is about.
TargetStored ==
    IF http.op \in {"mentor_time.update_mentor_time", "mentor_time.delete_mentor_time"}
        THEN http.req.slot_id \in DOMAIN slots
        ELSE http.req.request_id \in DOMAIN requests

CountFor(mentor_id, request_time) ==
    MentorTimeService_count_requests_for_time(mentor_id, request_time, NoFault).value

ReservedFor(mentor_id, request_time) ==
    MentorTimeService_check_time_reservation(mentor_id, request_time, NoFault).value

RequestsAt(mentor_id, request_time) ==
    {id \in DOMAIN requests :
        requests[id].mentor_id = mentor_id /\ requests[id].call_time = request_time}

\* C6: whatever creations, patches and deletions came before, the count
\* endpoint answers the number of stored requests with the mentor and call_time
\* asked for, the check endpoint answers true exactly when that number is above
\* zero (so false while the mentor has no request at that time), and right
\* after a call request for the mentor at that time is accepted the reservation
\* check is true.
C6_CountAndCheckMatchStore ==
    [][ \A m \in Mentors, t \in CallTimes :
          /\ (/\ Serves("mentor_time.count_requests")
              /\ http'.req.mentor_id = m /\ http'.req.request_time = t) =>
                (http'.status = 200 /\ http'.body = [count |-> Cardinality(RequestsAt(m, t))])
          /\ (/\ Serves("mentor_time.check_request")
              /\ http'.req.mentor_id = m /\ http'.req.request_time = t) =>
                (http'.status = 200 /\ http'.body = [status |-> RequestsAt(m, t) # {}])
          /\ (/\ Serves("student.create_call")
              /\ http'.req.body.mentor_id = m /\ http'.req.body.call_time = t) =>
                (ReservedFor(m, t)' /\ CountFor(m, t)' = Cardinality(RequestsAt(m, t)'))
      ]_vars

\* C6 witness: after one of two requests was deleted, the check for a mentor
\* and time is answered true while the same time is free for the other mentor.
C6_Witness ==
    /\ Served("mentor_time.check_request") /\ http.status = 200
    /\ http.body.status = TRUE
    /\ \E m \in Mentors : RequestsAt(m, http.req.request_time) = {}
    /\ nextRequestId = 3 /\ Cardinality(DOMAIN requests) = 1

\* C7: a record created through the message endpoint has call_type false and no
\* call_time, one created through the call endpoint has call_type true and the
\* call_time of the body; both carry the body's mentor_id and description, and
\* as guest_id the identity the bearer token decodes to.
C7_CreatedRecordFields ==
    /\ Served("student.create_message") =>
          /\ http.status = 201 /\ http.body.id \in DOMAIN requests
          /\ LET request == requests[http.body.id] IN
             /\ request.call_type = "False" /\ request.call_time = None
             /\ request.mentor_id = http.req.body.mentor_id
             /\ request.description = http.req.body.description
             /\ request.guest_id = extract_user_id(http.token).value
    /\ Served("student.create_call") =>
          /\ http.status = 201 /\ http.body.id \in DOMAIN requests
          /\ LET request == requests[http.body.id] IN
             /\ request.call_type = "True"
             /\ request.call_time = http.req.body.call_time
             /\ request.mentor_id = http.req.body.mentor_id
             /\ request.description = http.req.body.description
             /\ request.guest_id = extract_user_id(http.token).value

\* C7 witness: a message request of the second caller to the second mentor has
\* just been created.
C7_Witness ==
    /\ Served("student.create_message") /\ http.status = 201
    /\ http.token = "tok-u2" /\ http.req.body.mentor_id = "m2"
    /\ requests[http.body.id].guest_id = "u2"

\* The row a PATCH with this body must leave: the fields sent take the values
\* sent, the others keep theirs.
Patched(row, body) ==
    [f \in DOMAIN row |-> IF f \in Sent(body) THEN body[f] ELSE row[f]]

\* C8: a PATCH of a stored slot changes, in that slot, exactly the fields the
\* body sends and leaves its other fields, every other slot and every request
\* as they were; a PATCH of a stored request does the same over call_type,
\* mentor_id, guest_id, description, call_time and response (time_sended is
\* never changed).
C8_PatchChangesOnlySentFields ==
    [][ /\ \A id \in SlotIds :
             (/\ Serves("mentor_time.update_mentor_time")
              /\ http'.req.slot_id = id /\ id \in DOMAIN slots) =>
                /\ DOMAIN slots' = DOMAIN slots
                /\ slots'[id] = Patched(slots[id], http'.req.body)
                /\ \A other \in DOMAIN slots \ {id} : slots'[other] = slots[other]
                /\ requests' = requests
        /\ \A id \in RequestIds :
             (/\ Serves("student.update_request")
              /\ http'.req.request_id = id /\ id \in DOMAIN requests) =>
                /\ DOMAIN requests' = DOMAIN requests
                /\ requests'[id] = Patched(requests[id], http'.req.body)
                /\ \A other \in DOMAIN requests \ {id} : requests'[other] = requests[other]
                /\ slots' = slots
      ]_vars

\* C8 witness: of two stored slots one has just been patched with a body that
\* sends time_end alone, and its time_end is the one sent.
C8_Witness ==
    /\ Served("mentor_time.update_mentor_time") /\ http.status = 200
    /\ Sent(http.req.body) = {"time_end"}
    /\ Cardinality(DOMAIN slots) = 2
    /\ slots[http.req.slot_id].time_end = "11:00"
    /\ slots[http.req.slot_id].time_start = "09:00"

\* The ids of the slots get-all-by-mentor-id returns for the mentor, and of
\* those get-all returns.
ListedFor(mentor_id) ==
    {mt.id : mt \in MentorTimeService_get_all_mentor_time_by_mentor_id(
                        mentor_id, NoFault).value}

Listed == {mt.id : mt \in MentorTimeService_get_all_mentor_time(NoFault).value}

\* The step is the successful deletion of the slot.
DeletesSlot(id) ==
    /\ Serves("mentor_time.delete_mentor_time")
    /\ http'.req.slot_id = id /\ http'.status = 200

\* The step is a successful PATCH of the slot that sends a mentor_id.
MovesSlot(id) ==
    /\ Serves("mentor_time.update_mentor_time")
    /\ http'.req.slot_id = id /\ http'.status = 200
    /\ "mentor_id" \in Sent(http'.req.body)

\* C9 as claimed: a slot listed by get-all-by-mentor-id(M) stays listed there
\* by every step that does not delete it.
C9_ListedForMentorUntilDeleted ==
    [][ \A id \in SlotIds, m \in Mentors :
          (id \in ListedFor(m) /\ ~DeletesSlot(id)) => id \in ListedFor(m)'
      ]_vars

\* C9 as amended: a created slot is stored under the id returned and listed for
\* the mentor of the body; a slot listed for a mentor stays listed for that
\* mentor by every step that neither deletes it nor patches its mentor_id, and
\* listed by get-all by every step that does not delete it; the two listing
\* endpoints answer every stored slot (of the mentor asked for) under its id
\* and no slot that is not stored; a deleted slot is never stored again, and
\* deleting it once more answers 404.
C9_SlotLifecycle ==
    [][ /\ \A id \in SlotIds, m \in Mentors :
             /\ (/\ Serves("mentor_time.create_mentor_time")
                 /\ http'.body.id = id /\ http'.req.body.mentor_id = m) =>
                   (id \notin DOMAIN slots /\ id \in ListedFor(m)' /\ id \in Listed')
             /\ (id \in ListedFor(m) /\ ~DeletesSlot(id) /\ ~MovesSlot(id)) =>
                   id \in ListedFor(m)'
             /\ (id \in Listed /\ ~DeletesSlot(id)) => id \in Listed'
             /\ DeletesSlot(id) =>
                   (id \notin Listed' /\ \A other \in Mentors : id \notin ListedFor(other)')
             /\ (id < nextSlotId /\ id \notin DOMAIN slots) =>
                   /\ id \notin Listed' /\ \A other \in Mentors : id \notin ListedFor(other)'
                   /\ (/\ Serves("mentor_time.delete_mentor_time")
                       /\ http'.req.slot_id = id) => http'.status = 404
             /\ (Serves("mentor_time.get_all_by_mentor_id") /\ http'.req.mentor_id = m) =>
                   /\ http'.status = 200
                   /\ {dto.id : dto \in http'.body.mentor_times} =
                         {i \in DOMAIN slots : slots[i].mentor_id = m}
        /\ Serves("mentor_time.get_all") =>
             /\ http'.status = 200
             /\ {dto.id : dto \in http'.body.mentor_times} = DOMAIN slots
      ]_vars

\* C9 witness: a slot was created and deleted, and deleting it again has been
\* answered 404.
C9_Witness ==
    /\ Served("mentor_time.delete_mentor_time")
    /\ http.req.slot_id < nextSlotId
    /\ http.req.slot_id \notin DOMAIN slots
    /\ http.status = 404

Endpoints ==
    {"mentor_time.get_all", "mentor_time.create_mentor_time",
     "mentor_time.get_all_by_mentor_id", "mentor_time.get_possible_time",
     "mentor_time.count_requests", "mentor_time.check_request",
     "mentor_time.update_mentor_time", "mentor_time.delete_mentor_time",
     "student.get_all", "student.create_message", "student.create_call",
     "student.get_by_id", "student.update_request", "student.delete_request"}

\* C10: a request to any endpoint of the two routers whose bearer token is not
\* valid is answered with the authentication failure itself, its status and
\* detail untouched by the handlers' 400 mapping, the handler is not run, and
\* no slot or request is created, changed or removed.
C10_NoTokenNoEffect ==
    [][ \A op \in Endpoints :
          (/\ http = Idle /\ http' # Idle /\ http'.op = op
           /\ extract_user_id(http'.token).raised) =>
             /\ ~http'.handled
             /\ http'.status = extract_user_id(http'.token).exc.status_code
             /\ http'.body = Detail(extract_user_id(http'.token).exc.detail)
             /\ http'.status # 400
             /\ UNCHANGED <<slots, requests, nextSlotId, nextRequestId>>
      ]_vars

\* C10 witness: a DELETE of a request without a valid token has been turned
\* down while requests are stored.
C10_Witness ==
    /\ http.op = "student.delete_request"
    /\ extract_user_id(http.token).raised
    /\ ~http.handled
    /\ DOMAIN requests # {}


\* C11: mentor records are only created and read.  A create_mentor(tg_id, name,
\* info) that succeeds returns an id no stored mentor had and stores exactly
\* those three values under it; no call of the service changes or removes a
\* stored mentor, and get_mentor_by_id returns the stored record of its id, so
\* a created mentor reads back with the values it was created with after any
\* further calls.  Unless storage itself fails, get_mentor_by_id for an id
\* that is not stored and get_mentor_by_tg_id for a telegram id no stored mentor
\* has return None and do not raise.
C11_MentorsCreateReadOnly ==
    [][ /\ \A id \in DOMAIN mentors :
              id \in DOMAIN mentors' /\ mentors'[id] = mentors[id]
        /\ (call'.op = "create_mentor" /\ ~call'.outcome.raised) =>
              /\ call'.outcome.value \notin DOMAIN mentors
              /\ call'.outcome.value \in DOMAIN mentors'
              /\ mentors'[call'.outcome.value] =
                    [telegram_id |-> call'.tg_id, name |-> call'.name,
                     info |-> call'.info]
        /\ (call'.op = "get_mentor_by_id" /\ call'.fault = NoFault) =>
              /\ ~call'.outcome.raised
              /\ call'.outcome.value =
                    IF call'.mentor_id \in DOMAIN mentors
                        THEN << [id |-> call'.mentor_id,
                                 telegram_id |-> mentors[call'.mentor_id].telegram_id,
                                 name |-> mentors[call'.mentor_id].name,
                                 info |-> mentors[call'.mentor_id].info] >>
                        ELSE <<>>
        /\ (/\ call'.op = "get_mentor_by_tg_id" /\ call'.fault = NoFault
            /\ WithTgId(call'.tg_id) = {}) =>
              /\ ~call'.outcome.raised
              /\ call'.outcome.value = <<>>
      ]_vars

\* C11 witness: the mentor created first as ("tg1", "Alice", "bio") is read
\* back by id with those values after a second mentor was created.
C11_Witness ==
    /\ call.op = "get_mentor_by_id"
    /\ call.mentor_id = 1
    /\ Cardinality(DOMAIN mentors) = 2
    /\ ~call.outcome.raised
    /\ call.outcome.value =
          << [id |-> 1, telegram_id |-> "tg1", name |-> "Alice", info |-> "bio"] >>

====
